---- MODULE Spec2Model ----
(***************************************************************************)
(* Term-at-a-time TF-IDF scoring notebook                                  *)
(* (practicum-1/solutions/3_Taat_scoring.ipynb).                           *)
(*                                                                         *)
(* The notebook is a sequence of cells over module-level globals:          *)
(* td_matrix, NUM_DOCS, inv_idx, doclen, docnorm, query, scores.  Each     *)
(* cell is one action.  Python floats are modelled as binary floating      *)
(* point numbers with round-to-nearest-even after every operation; the     *)
(* mantissa is MantBits wide instead of 53 so that every intermediate      *)
(* fits a 32-bit integer.                                                  *)
(***************************************************************************)
EXTENDS Integers, Sequences, FiniteSets, TLC

VARIABLES td_matrix, hash_order, inv_idx, doclen, docnorm, query, scores,
          raised, output, pc

vars == <<td_matrix, hash_order, inv_idx, doclen, docnorm, query, scores,
          raised, output, pc>>

(* Bounds of the model.                                                    *)

\* longest query the scorer is called with
MaxQueryLen == 3

(* Binary floating point: 0, or m * 2^e with 2^(MantBits-1) <= m <        *)
(* 2^MantBits.  All numbers of the notebook are non-negative.              *)

MantBits == 24

Zero == [m |-> 0, e |-> 0]

RECURSIVE WidthFrom(_, _)
WidthFrom(m, n) == IF m < 2^n THEN n ELSE WidthFrom(m, n + 1)

\* number of binary digits of m > 0
Width(m) == IF m >= 2^MantBits THEN WidthFrom(m, MantBits + 1) ELSE WidthFrom(m, 1)

\* quotient q, remainder r of a division by 2 * half: to nearest, ties to even
RoundNearest(q, r, half, sticky, e) ==
    IF r > half \/ (r = half /\ (sticky \/ q % 2 = 1))
    THEN IF q + 1 = 2^MantBits
         THEN [m |-> 2^(MantBits - 1), e |-> e + 1]
         ELSE [m |-> q + 1, e |-> e]
    ELSE [m |-> q, e |-> e]

\* Round for an m that has k binary digits more than the mantissa
RoundBy(m, e, sticky, k) ==
    IF k <= 0
    THEN [m |-> m * 2^(-k), e |-> e + k]
    ELSE RoundNearest(m \div 2^k, m % 2^k, 2^(k - 1), sticky, e + k)

\* m * 2^e (plus a non-zero tail below the last bit of m when sticky),
\* rounded to nearest, ties to even
Round(m, e, sticky) == RoundBy(m, e, sticky, Width(m) - MantBits)

\* float(n) for a small non-negative int
FromInt(n) == IF n = 0 THEN Zero ELSE Round(n, 0, FALSE)

\* the product hi * 2^24 + lo of two mantissas, times 2^e
MulRound(hi, lo, e) == Round(hi * 4 + lo \div 2^22, e + 22, lo % 2^22 # 0)

\* mid the sum of the cross products, lowsum the part below 2^24 before carry
MulCarry(hh, mid, lowsum, e) ==
    MulRound(hh + mid \div 4096 + lowsum \div 2^24, lowsum % 2^24, e)

MulMid(hh, mid, ll, e) == MulCarry(hh, mid, (mid % 4096) * 4096 + ll, e)

\* (ah * 2^12 + al) * (bh * 2^12 + bl) * 2^e
MulLimbs(ah, al, bh, bl, e) == MulMid(ah * bh, ah * bl + al * bh, al * bl, e)

\* a * b
FMul(a, b) ==
    IF a.m = 0 \/ b.m = 0 THEN Zero
    ELSE MulLimbs(a.m \div 4096, a.m % 4096, b.m \div 4096, b.m % 4096, a.e + b.e)

\* schoolbook division: `steps` more groups of `bits` quotient bits
RECURSIVE LongDiv(_, _, _, _, _)
LongDiv(q, r, d, bits, steps) ==
    IF steps = 0 THEN <<q, r>>
    ELSE LongDiv(q * 2^bits + (r * 2^bits) \div d, (r * 2^bits) % d,
                 d, bits, steps - 1)

DivRound(qr, e) == Round(qr[1], e, qr[2] # 0)

\* a / b for b # 0
FDiv(a, b) ==
    IF a.m = 0 THEN Zero
    ELSE DivRound(LongDiv(a.m \div b.m, a.m % b.m, b.m, 7, 4), a.e - b.e - 28)

\* x + y for x.e >= y.e, d the difference of the exponents
AddAligned(x, y, d) ==
    IF d >= MantBits + 3 THEN x
    ELSE Round(x.m * 4 + (y.m * 4) \div 2^d, x.e - 2, (y.m * 4) % 2^d # 0)

\* a + b
FAdd(a, b) ==
    IF a.m = 0 THEN b
    ELSE IF b.m = 0 THEN a
    ELSE IF a.e < b.e THEN AddAligned(b, a, b.e - a.e)
    ELSE AddAligned(a, b, a.e - b.e)

SqrtStep(r4, trial) == IF r4 >= trial THEN <<1, r4 - trial>> ELSE <<0, r4>>

\* digit-by-digit square root of m * 2^28, two bits of m per step
RECURSIVE SqrtLoop(_, _, _, _)
SqrtLoop(m, i, root, st) ==
    IF i = 27 THEN <<root * 2 + st[1], st[2]>>
    ELSE SqrtLoop(m, i + 1, root * 2 + st[1],
           SqrtStep(st[2] * 4 + (IF i <= 12 THEN (m \div 4^(12 - i)) % 4 ELSE 0),
                    (root * 2 + st[1]) * 4 + 1))

SqrtRound(rr, e) == Round(rr[1], e, rr[2] # 0)

\* math.sqrt(a)
FSqrt(a) ==
    IF a.m = 0 THEN Zero
    ELSE IF a.e % 2 = 1
    THEN SqrtRound(SqrtLoop(a.m * 2, 0, 0, <<0, 0>>), ((a.e - 1) \div 2) - 14)
    ELSE SqrtRound(SqrtLoop(a.m, 0, 0, <<0, 0>>), (a.e \div 2) - 14)

FxLimbs(ah, al, bh, bl) ==
    ah * bh + (ah * bl + al * bh) \div 2^14 + (al * bl) \div 2^28

\* fixed point product a * b / 2^28 for a, b < 2^27
FxMul(a, b) == FxLimbs(a \div 2^14, a % 2^14, b \div 2^14, b % 2^14)

\* z + z^3/3 + z^5/5 + ... in fixed point, pw the current odd power of z
RECURSIVE AtanhSeries(_, _, _)
AtanhSeries(pw, z2, k) ==
    IF pw = 0 THEN 0 ELSE pw \div k + AtanhSeries(FxMul(pw, z2), z2, k + 2)

\* ln 2 in units of 2^-28
Ln2Fx == 186065279

LogRound(L) == IF L = 0 THEN Zero ELSE Round(L, -28, FALSE)

\* ln(f * 2^k) = k ln 2 + 2 atanh(z) for z = (f-1)/(f+1)
LogSeries(z, k) == LogRound(k * Ln2Fx + 2 * AtanhSeries(z, FxMul(z, z), 1))

\* math.log(x), the natural logarithm, for x >= 1: x = f * 2^k with 1 <= f < 2
FLog(x) == LogSeries(LongDiv(0, x.m - 2^23, x.m + 2^23, 4, 7)[1], x.e + 23)

\* position of a float in the increasing enumeration of all floats
Ord(a) == IF a.m = 0 THEN 0 ELSE (a.e + 100) * 2^23 + (a.m - 2^23)

\* a <= b
FLeq(a, b) == Ord(a) <= Ord(b)

(* Cells 2 and 3: the term-document matrix and the document count.         *)

NUM_DOCS == 5

TermOrder == <<"beijing", "dish", "duck", "rabbit", "recipe", "roast">>

Terms == {TermOrder[i] : i \in 1..Len(TermOrder)}

HardcodedMatrix ==
    [t \in Terms |->
        CASE t = "beijing" -> <<0, 1, 0, 0, 1>>
          [] t = "dish"    -> <<0, 1, 0, 0, 1>>
          [] t = "duck"    -> <<3, 2, 2, 0, 1>>
          [] t = "rabbit"  -> <<0, 0, 1, 1, 0>>
          [] t = "recipe"  -> <<0, 0, 1, 1, 1>>
          [] t = "roast"   -> <<0, 0, 0, 0, 0>>]


\* documents are numbered from 0 (enumerate); vec[d + 1] is document d
Docs == 0..(NUM_DOCS - 1)

\* the matrix with the cell of term t and document d toggled between
\* absent (0) and present (1)
ToggleCell(mat, t, d) ==
    [mat EXCEPT ![t] = [i \in 1..Len(mat[t]) |->
        IF i = d + 1 THEN (IF mat[t][i] > 0 THEN 0 ELSE 1) ELSE mat[t][i]]]

\* the term whose row is varied
EditedTerms == {"duck"}

\* the matrices the index is built from: the notebook's, and the notebook's
\* with one cell of an edited term toggled
Matrices ==
    {HardcodedMatrix} \cup
    {ToggleCell(HardcodedMatrix, t, d) : t \in EditedTerms, d \in Docs}

\* a term that is not a key of the index
UnknownTerm == "zzz"

\* the terms an edit of the query appends
QueryTerms == {"beijing", "duck", "roast", UnknownTerm}

\* the query literal of cell 10
ExampleQuery == <<"beijing", "duck", "recipe">>

\* iteration orders of set(query): the order depends on the string hashes of
\* the interpreter process
HashOrders ==
    { <<"beijing", "dish", "duck", "rabbit", "recipe", "roast", UnknownTerm>>,
      <<UnknownTerm, "roast", "recipe", "rabbit", "duck", "dish", "beijing">> }

(* Python dicts: functions; d.get(k, default) and d[k] = v.                *)
DictGet(d, k, default) == IF k \in DOMAIN d THEN d[k] ELSE default

DictPut(d, k, v) == [x \in (DOMAIN d) \cup {k} |-> IF x = k THEN v ELSE d[x]]

EmptyDict == << >>

(* The scores dict keeps insertion order (sorted() is stable, so the order *)
(* decides ties): a sequence of <<key, value>> pairs.                      *)
RECURSIVE ODictGet(_, _, _)
ODictGet(od, k, default) ==
    IF od = << >> THEN default
    ELSE IF Head(od)[1] = k THEN Head(od)[2]
    ELSE ODictGet(Tail(od), k, default)

ODictKeys(od) == {od[i][1] : i \in DOMAIN od}

ODictPut(od, k, v) ==
    IF k \in ODictKeys(od)
    THEN [i \in DOMAIN od |-> IF od[i][1] = k THEN <<k, v>> ELSE od[i]]
    ELSE Append(od, <<k, v>>)

(* Cell 4: the index builder.                                              *)

\* freq >= 0 in place of freq > 0: a posting for every document
RECURSIVE IndexVecKeepZeros(_, _, _)
IndexVecKeepZeros(vec, pos, acc) ==
    IF pos > Len(vec) THEN acc
    ELSE IndexVecKeepZeros(vec, pos + 1,
           << Append(acc[1], <<pos - 1, vec[pos]>>),
              DictPut(acc[2], pos - 1, DictGet(acc[2], pos - 1, 0) + vec[pos]) >>)

\* doclen counts the distinct terms of a document, not their occurrences
RECURSIVE IndexVecCountTerms(_, _, _)
IndexVecCountTerms(vec, pos, acc) ==
    IF pos > Len(vec) THEN acc
    ELSE IF vec[pos] > 0
    THEN IndexVecCountTerms(vec, pos + 1,
           << Append(acc[1], <<pos - 1, vec[pos]>>),
              DictPut(acc[2], pos - 1, DictGet(acc[2], pos - 1, 0) + 1) >>)
    ELSE IndexVecCountTerms(vec, pos + 1, acc)

\* for doc_id, freq in enumerate(vec): acc is <<posting list, doclen>>
RECURSIVE IndexVec(_, _, _)
IndexVec(vec, pos, acc) ==
    IF pos > Len(vec) THEN acc
    ELSE LET doc_id == pos - 1
             freq   == vec[pos]
         IN IF freq > 0
            THEN IndexVec(vec, pos + 1,
                   << Append(acc[1], <<doc_id, freq>>),
                      DictPut(acc[2], doc_id, DictGet(acc[2], doc_id, 0) + freq) >>)
            ELSE IndexVec(vec, pos + 1, acc)

\* for term, vec in td_matrix.items(): acc is <<inv_idx, doclen>>
RECURSIVE IndexTerms(_, _, _)
IndexTerms(mat, ti, acc) ==
    IF ti > Len(TermOrder) THEN acc
    ELSE LET term == TermOrder[ti]
             r    == IndexVec(mat[term], 1, << << >>, acc[2] >>)
         IN IndexTerms(mat, ti + 1, << DictPut(acc[1], term, r[1]), r[2] >>)

(* Cell 5: class InvIndex over the global inv_idx.                         *)
terms == DOMAIN inv_idx

postings(term) == DictGet(inv_idx, term, << >>)

\* the guard on an empty posting list left out: the division raises, shown
\* as a value that is no float
idf_unguarded(term) ==
    IF Len(postings(term)) = 0
    THEN [m |-> -1, e |-> 0]
    ELSE FLog(FDiv(FromInt(NUM_DOCS), FromInt(Len(postings(term)))))

(* Cell 7.                                                                 *)
idf(term) ==
    IF Len(postings(term)) > 0
    THEN FLog(FDiv(FromInt(NUM_DOCS), FromInt(Len(postings(term)))))
    ELSE Zero

(* Cell 8: document norms.                                                 *)

\* summation part, for (doc_id, freq) in idx.postings(term)
\* docnorm[doc_id] = tfidf**2: the last term overwrites the sum
NormAddOverwrite(dn, doc_id, tfidf) == DictPut(dn, doc_id, FMul(tfidf, tfidf))

\* docnorm[doc_id] = docnorm.get(doc_id, 0) + tfidf**2
NormAdd(dn, doc_id, tfidf) ==
    DictPut(dn, doc_id, FAdd(DictGet(dn, doc_id, Zero), FMul(tfidf, tfidf)))

RECURSIVE NormPostings(_, _, _)
NormPostings(term, pi, dn) ==
    IF pi > Len(postings(term)) THEN dn
    ELSE LET doc_id == postings(term)[pi][1]
             freq   == postings(term)[pi][2]
             tf     == FDiv(FromInt(freq), FromInt(doclen[doc_id]))
         IN NormPostings(term, pi + 1, NormAdd(dn, doc_id, FMul(tf, idf(term))))

\* for term in idx.terms(): the keys of inv_idx in insertion order
RECURSIVE NormTerms(_, _, _)
NormTerms(ts, ti, dn) ==
    IF ti > Len(ts) THEN dn
    ELSE NormTerms(ts, ti + 1, NormPostings(ts[ti], 1, dn))

\* sqrt part
NormSqrt(dn) == [d \in DOMAIN dn |-> FSqrt(dn[d])]

(* Cell 9: score_tt.                                                       *)
Range(s) == {s[i] : i \in DOMAIN s}

\* for term in set(query)
set_iter(q) == SelectSeq(hash_order, LAMBDA t : t \in Range(q))

\* query.count(term)
count(q, term) == Cardinality({i \in DOMAIN q : q[i] = term})

\* qnorm += tfidf**2
QnormAdd(qnorm, tfidf) == FAdd(qnorm, FMul(tfidf, tfidf))

RECURSIVE QnormSum(_, _, _, _)
QnormSum(q, ts, i, qnorm) ==
    IF i > Len(ts) THEN qnorm
    ELSE LET tf == FDiv(FromInt(count(q, ts[i])), FromInt(Len(q)))
         IN QnormSum(q, ts, i + 1, QnormAdd(qnorm, FMul(tf, idf(ts[i]))))

\* scores[doc_id] = score_term: the last query term overwrites the sum
ScorePostingOverwrite(acc, doc_id, freq, qlen, w, den) ==
    IF den.m = 0
    THEN [raised |-> "ZeroDivisionError", scores |-> acc]
    ELSE [raised |-> "none",
          scores |-> ODictPut(acc, doc_id,
                  FDiv(FMul(FMul(FDiv(FromInt(1), FromInt(qlen)), w),
                            FMul(FDiv(FromInt(freq), FromInt(doclen[doc_id])), w)),
                       den))]

\* one posting of the inner loop: the new accumulator, or the error raised
\* by the division; w is idf(term), den is qnorm * docnorm[doc_id]
ScorePosting(acc, doc_id, freq, qlen, w, den) ==
    IF den.m = 0
    THEN [raised |-> "ZeroDivisionError", scores |-> acc]
    ELSE [raised |-> "none",
          scores |-> ODictPut(acc, doc_id,
             FAdd(ODictGet(acc, doc_id, Zero),
                  FDiv(FMul(FMul(FDiv(FromInt(1), FromInt(qlen)), w),
                            FMul(FDiv(FromInt(freq), FromInt(doclen[doc_id])), w)),
                       den)))]

\* term-at-a-time scoring: ti walks the query, pi the postings of query[ti]
RECURSIVE ScoreLoop(_, _, _, _, _)
ScoreLoop(q, ti, pi, qnorm, r) ==
    IF r.raised # "none" \/ ti > Len(q) THEN r
    ELSE IF pi > Len(postings(q[ti])) THEN ScoreLoop(q, ti + 1, 1, qnorm, r)
    ELSE ScoreLoop(q, ti, pi + 1, qnorm,
           ScorePosting(r.scores, postings(q[ti])[pi][1], postings(q[ti])[pi][2],
                        Len(q), idf(q[ti]), FMul(qnorm, docnorm[postings(q[ti])[pi][1]])))

\* the accumulator is the module-level scores, not a fresh dict
score_tt_global_scores(q) ==
    ScoreLoop(q, 1, 1, FSqrt(QnormSum(q, set_iter(q), 1, Zero)),
              [raised |-> "none", scores |-> scores])

\* the accumulator starts with every document at score 0
score_tt_all_docs(q) ==
    ScoreLoop(q, 1, 1, FSqrt(QnormSum(q, set_iter(q), 1, Zero)),
              [raised |-> "none", scores |-> [i \in 1..NUM_DOCS |-> <<i - 1, Zero>>]])

score_tt(q) ==
    ScoreLoop(q, 1, 1, FSqrt(QnormSum(q, set_iter(q), 1, Zero)),
              [raised |-> "none", scores |-> << >>])

(* Cell 11: the display routine.                                           *)

\* sorted(..., key=lambda x: x[1], reverse=True): stable, descending score
RECURSIVE InsertDesc(_, _)
InsertDesc(sorted, item) ==
    IF sorted = << >> THEN <<item>>
    ELSE IF FLeq(item[2], Head(sorted)[2]) THEN <<Head(sorted)>> \o InsertDesc(Tail(sorted), item)
    ELSE <<item>> \o sorted

RECURSIVE SortedDesc(_, _, _)
SortedDesc(items, i, acc) ==
    IF i > Len(items) THEN acc ELSE SortedDesc(items, i + 1, InsertDesc(acc, items[i]))

\* round(score, 3) in thousandths: the multiple of 0.001 nearest to the
\* exact value of the float, ties to even
Thousandths(a) ==
    IF a.m = 0 \/ a.e < -42 THEN 0
    ELSE LET k   == -a.e
             A   == (a.m \div 4096) * 1000
             B   == (a.m % 4096) * 1000
             Ai  == A + B \div 4096
             Bl  == B % 4096
             fl  == Ai \div 2^(k - 12)
             rhi == Ai % 2^(k - 12)
             hh  == 2^(k - 13)
             up  == rhi > hh \/ (rhi = hh /\ (Bl > 0 \/ fl % 2 = 1))
         IN IF up THEN fl + 1 ELSE fl

Digit == <<"0", "1", "2", "3", "4", "5", "6", "7", "8", "9">>

\* str(n) for an int n >= 0
RECURSIVE StrInt(_)
StrInt(n) == IF n < 10 THEN Digit[n + 1] ELSE StrInt(n \div 10) \o Digit[(n % 10) + 1]

\* the fractional digits of t/1000 without trailing zeros, at least one
FracDigits(f) ==
    IF f % 100 = 0 THEN Digit[(f \div 100) + 1]
    ELSE IF f % 10 = 0 THEN Digit[(f \div 100) + 1] \o Digit[((f \div 10) % 10) + 1]
    ELSE Digit[(f \div 100) + 1] \o Digit[((f \div 10) % 10) + 1] \o Digit[(f % 10) + 1]

\* str of the float round(score, 3), given in thousandths
StrRounded(t) == StrInt(t \div 1000) \o "." \o FracDigits(t % 1000)

\* the document id printed as it is, from 0
LineFromZero(item) == "D" \o StrInt(item[1]) \o ":" \o " " \o StrRounded(Thousandths(item[2]))

\* print("D" + str(doc_id + 1) + ":", round(score, 3))
Line(item) == "D" \o StrInt(item[1] + 1) \o ":" \o " " \o StrRounded(Thousandths(item[2]))

Display(sc) ==
    LET ranked == SortedDesc(sc, 1, << >>)
    IN [i \in 1..Len(ranked) |-> Line(ranked[i])]

(* The queries cell 10 is run with: the literal as written, or the        *)
(* current query after an edit that keeps it, appends one term or deletes  *)
(* the last term.                                                          *)
CellQueries(q) ==
    {ExampleQuery, q} \cup {Append(q, t) : t \in QueryTerms} \cup
    (IF q = << >> THEN {} ELSE {SubSeq(q, 1, Len(q) - 1)})

(* The notebook.                                                           *)
Init ==
    /\ td_matrix \in Matrices
    /\ hash_order \in HashOrders
    /\ inv_idx = EmptyDict
    /\ doclen = EmptyDict
    /\ docnorm = EmptyDict
    /\ query = << >>
    /\ scores = << >>
    /\ raised = "none"
    /\ output = << >>
    /\ pc = "matrix"

\* cell 4
BuildIndex ==
    /\ pc = "matrix"
    /\ LET r == IndexTerms(td_matrix, 1, <<EmptyDict, EmptyDict>>)
       IN /\ inv_idx' = r[1]
          /\ doclen' = r[2]
    /\ pc' = "indexed"
    /\ UNCHANGED <<td_matrix, hash_order, docnorm, query, scores, raised, output>>

\* cell 8
ComputeDocnorm ==
    /\ pc = "indexed"
    /\ docnorm' = NormSqrt(NormTerms(SelectSeq(TermOrder, LAMBDA t : t \in terms), 1, EmptyDict))
    /\ pc' = "normed"
    /\ UNCHANGED <<td_matrix, hash_order, inv_idx, doclen, query, scores, raised, output>>

\* scores = <the value returned>: no assignment when the call raised
Returned(r) ==
    /\ raised' = r.raised
    /\ scores' = IF r.raised = "none" THEN r.scores ELSE scores
    /\ pc' = IF r.raised = "none" THEN "scored" ELSE pc

\* cell 10: query = q; scores = score_tt(query)
ScoreTT(q) ==
    /\ pc \in {"normed", "scored"}
    /\ Len(q) <= MaxQueryLen
    /\ query' = q
    /\ Returned(score_tt(q))
    /\ UNCHANGED <<td_matrix, hash_order, inv_idx, doclen, docnorm, output>>

\* cell 11, the last cell of the notebook
DisplayScores ==
    /\ pc = "scored"
    /\ output' = Display(scores)
    /\ pc' = "displayed"
    /\ UNCHANGED <<td_matrix, hash_order, inv_idx, doclen, docnorm, query, scores, raised>>

Next ==
    \/ BuildIndex
    \/ ComputeDocnorm
    \/ \E q \in CellQueries(query) : ScoreTT(q)
    \/ DisplayScores

Spec == Init /\ [][Next]_vars

(* ----------------------------------------------------------------------- *)
(* Properties.                                                             *)
(* ----------------------------------------------------------------------- *)

\* cell 4 has run
Indexed == pc # "matrix"

\* cell 8 has run
Normed == pc \in {"normed", "scored", "displayed"}

\* the documents with a posting of term t
PostingDocs(t) == {postings(t)[i][1] : i \in DOMAIN postings(t)}

\* the terms of the index with a posting for document d
TermsOf(d) == {t \in terms : d \in PostingDocs(t)}

\* distance of two floats in units in the last place
UlpDist(a, b) == IF Ord(a) >= Ord(b) THEN Ord(a) - Ord(b) ELSE Ord(b) - Ord(a)

\* two score mappings with the same keys and values at most k ulps apart
ScoresWithin(s1, s2, k) ==
    /\ ODictKeys(s1) = ODictKeys(s2)
    /\ \A d \in ODictKeys(s1) : UlpDist(ODictGet(s1, d, Zero), ODictGet(s2, d, Zero)) <= k

\* two score mappings that are equal as dicts (insertion order aside)
ScoresEqual(s1, s2) == ScoresWithin(s1, s2, 0)

\* the permutations of q
QueryPermutations(q) ==
    {p \in [1..Len(q) -> Range(q)] : \A t \in Range(q) : count(p, t) = count(q, t)}

\* log10(x) = ln(x) / ln(10)
FLog10(x) == FDiv(FLog(x), FLog(FromInt(10)))

\* C1: with the hardcoded matrix and the query ["beijing", "duck", "recipe"],
\* the display cell prints D5: 0.76, D2: 0.639, D3: 0.295, D4: 0.232,
\* D1: 0.208, in this order.
C1_ExampleOutput ==
    (pc = "displayed" /\ td_matrix = HardcodedMatrix /\ query = ExampleQuery /\ raised = "none")
    => output = <<"D5: 0.76", "D2: 0.639", "D3: 0.295", "D4: 0.232", "D1: 0.208">>

C1_Witness ==
    pc = "displayed" /\ td_matrix = HardcodedMatrix /\ query = ExampleQuery /\ raised = "none"
    /\ Len(output) = 5

\* C2: for every term with a non-empty posting list, idf(term) is the
\* base-10 logarithm of NUM_DOCS / len(postings(term)).
C2_IdfIsLog10 ==
    Indexed =>
        \A t \in terms :
            Len(postings(t)) > 0 =>
                idf(t) = FLog10(FDiv(FromInt(NUM_DOCS), FromInt(Len(postings(t)))))

\* C3: after the index builder, every term of the matrix is a key of inv_idx
\* and its posting list is exactly the pairs (d, matrix[t][d]) with a
\* positive frequency, in ascending order of d; an all-zero row gives an
\* empty list.
C3_PostingsMatchMatrix ==
    Indexed =>
        /\ DOMAIN inv_idx = DOMAIN td_matrix
        /\ \A t \in DOMAIN td_matrix :
              /\ \A i \in DOMAIN inv_idx[t] :
                    /\ inv_idx[t][i][1] \in Docs
                    /\ inv_idx[t][i][2] = td_matrix[t][inv_idx[t][i][1] + 1]
                    /\ inv_idx[t][i][2] > 0
              /\ \A i, j \in DOMAIN inv_idx[t] :
                    i < j => inv_idx[t][i][1] < inv_idx[t][j][1]
              /\ \A d \in Docs :
                    td_matrix[t][d + 1] > 0 => \E i \in DOMAIN inv_idx[t] : inv_idx[t][i][1] = d

C3_Witness ==
    /\ pc = "indexed"
    /\ td_matrix = HardcodedMatrix
    /\ inv_idx["roast"] = << >>
    /\ inv_idx["duck"] = << <<0, 3>>, <<1, 2>>, <<2, 2>>, <<4, 1>> >>

\* the sum of the frequencies of the postings of document d in a list
RECURSIVE SumFreq(_, _)
SumFreq(plist, d) ==
    IF plist = << >> THEN 0
    ELSE (IF Head(plist)[1] = d THEN Head(plist)[2] ELSE 0) + SumFreq(Tail(plist), d)

\* the same over the posting lists of the terms ts
RECURSIVE SumOverTerms(_, _)
SumOverTerms(ts, d) ==
    IF ts = {} THEN 0
    ELSE LET t == CHOOSE x \in ts : TRUE
         IN SumFreq(inv_idx[t], d) + SumOverTerms(ts \ {t}, d)

\* C4: after the index builder, doclen[d] is the sum of the frequencies of
\* all postings (d, f) of the index, and every document of a posting list
\* has an entry in doclen.
C4_DoclenIsSum ==
    Indexed =>
        /\ \A d \in DOMAIN doclen : doclen[d] = SumOverTerms(terms, d)
        /\ \A t \in terms : PostingDocs(t) \subseteq DOMAIN doclen

C4_Witness ==
    /\ pc = "indexed"
    /\ \E d \in DOMAIN doclen : Cardinality(TermsOf(d)) > 1 /\ doclen[d] > Cardinality(TermsOf(d))
    /\ \E d \in Docs : d \notin DOMAIN doclen

\* C5: idf is 0 for a term with no postings, be it indexed with an empty
\* list or not a key of the index, for which postings gives the empty list.
C5_IdfZeroForEmpty ==
    Indexed =>
        /\ postings(UnknownTerm) = << >>
        /\ \A t \in terms \cup {UnknownTerm} : postings(t) = << >> => idf(t) = Zero

C5_Witness ==
    /\ Indexed
    /\ "roast" \in terms
    /\ postings("roast") = << >>
    /\ UnknownTerm \notin terms
    /\ idf("duck") # Zero

\* the terms of the current query that have no postings
ZeroPostingsTerms == {t \in Range(query) : postings(t) = << >>}

\* q with every occurrence of term t removed
Without(q, t) == SelectSeq(q, LAMBDA x : x # t)

\* the run r of score_tt raises as the last run of cell 10 did, or returns
\* its document ids with scores at most k ulps from those it returned
RunAgrees(r, k) ==
    /\ r.raised = raised
    /\ raised = "none" => ScoresWithin(r.scores, scores, k)

\* C6 (as claimed): for a non-empty query, score_tt of every permutation
\* returns the same mapping: the same document ids, the same score each.
C6_PermutationSameScores ==
    (Normed /\ query # << >>) =>
        \A p \in QueryPermutations(query) :
            RunAgrees(score_tt(p), 0)

\* position of a term in the alphabet
Rank(t) == CHOOSE i \in 1..7 :
    <<"beijing", "dish", "duck", "rabbit", "recipe", "roast", UnknownTerm>>[i] = t

\* the permutation of q with its terms in alphabetical order
Alphabetical(q) == SortSeq(q, LAMBDA a, b : Rank(a) < Rank(b))

\* C6 (amended): for a non-empty query q, score_tt of every permutation of q
\* raises or returns as score_tt(q) does, returns the same document ids and,
\* for each, a score that differs by rounding only, the float additions of
\* the accumulation not being associative: every permutation is at most
\* len(q) units in the last place from the alphabetical one, so any two are
\* at most 2 len(q) apart.
C6_PermutationSameKeysCloseScores ==
    (Normed /\ query # << >>) => RunAgrees(score_tt(Alphabetical(query)), Len(query))

C6_Witness ==
    /\ pc = "scored" /\ raised = "none"
    /\ Len(query) = 3 /\ Cardinality(Range(query)) = 2
    /\ query # Alphabetical(query)
    /\ ~RunAgrees(score_tt(Alphabetical(query)), 0)

\* C7: a query with a term that has no postings raises no error and scores
\* as the query without that term does: the same document ids, the same
\* scores up to the rounding of the changed query length and normalisation.
C7_ZeroPostingsTermIgnored ==
    (Normed /\ ZeroPostingsTerms # {}) =>
        /\ raised = "none"
        /\ \A t \in ZeroPostingsTerms : RunAgrees(score_tt(Without(query, t)), Len(query))

\* C8: a run of cell 10 leaves td_matrix, inv_idx, doclen and docnorm as they
\* were, and run again with the same query it returns (or raises) the same.
C8_ScoreTTPure ==
    [][ (pc \in {"normed", "scored"} /\ pc' \in {"normed", "scored"}) =>
            /\ td_matrix' = td_matrix
            /\ inv_idx' = inv_idx
            /\ doclen' = doclen
            /\ docnorm' = docnorm
            /\ query' = query => (scores' = scores /\ raised' = raised) ]_vars

C8_Witness ==
    /\ pc = "scored" /\ raised = "none"
    /\ query = <<"beijing", "duck">>
    /\ Len(scores) = 4

\* C9: after the document norms are computed, every document with a posting
\* has a norm, the norm is >= 0, and it is 0 only if every term with a
\* posting for the document has idf 0.
C9_DocnormZeroOnlyIfIdfZero ==
    Normed =>
        \A t \in terms : \A d \in PostingDocs(t) :
            /\ d \in DOMAIN docnorm
            /\ docnorm[d].m >= 0
            /\ docnorm[d] = Zero => \A t2 \in TermsOf(d) : idf(t2) = Zero

C9_Witness ==
    /\ pc = "normed"
    /\ \E d \in DOMAIN docnorm : docnorm[d] = Zero /\ TermsOf(d) # {}
    /\ \E d \in DOMAIN docnorm :
          docnorm[d] # Zero /\ \E t \in TermsOf(d) : idf(t) = Zero

\* C10: the keys of the mapping score_tt returns are exactly the documents
\* in the posting list of some term of the query; the empty query and a
\* query of terms without postings return the empty mapping, with no error.
C10_KeysAreMatchingDocs ==
    Normed =>
        /\ raised = "none" =>
              ODictKeys(scores) = UNION {PostingDocs(query[i]) : i \in DOMAIN query}
        /\ (\A i \in DOMAIN query : postings(query[i]) = << >>) =>
              (raised = "none" /\ scores = << >>)

C10_Witness ==
    /\ pc = "scored" /\ raised = "none"
    /\ query # << >>
    /\ ODictKeys(scores) # {}
    /\ \E d \in DOMAIN doclen : d \notin ODictKeys(scores)
====
